---- MODULE Spec2Model ----
(***************************************************************************)
(* A model of app/vector_store.py: the DriveVectorStore (artifact loading, *)
(* consistency validation, cosine top-k search) and its process-wide       *)
(* singleton accessor get_drive_vector_store.                              *)
(*                                                                         *)
(* Floating-point numbers are modelled as fixed-point integers: the real   *)
(* x is the integer round(x * Scale).  Every arithmetic step of the code   *)
(* is followed by a rounding to that grid, as a float operation is.        *)
(***************************************************************************)
EXTENDS Integers, Sequences, FiniteSets, TLC

\* ---------------------------------------------------------------- bounds
NThreads == 2
MaxCalls == 3
MaxEnvChanges == 1
MaxRows == 3

\* Fixed-point resolution of the float model (1.0 is the integer Scale).
Scale == 10 * 10

Threads == 1..NThreads

\* ------------------------------------------------------------ Python values
None == "None"

\* Python truthiness of an Optional[str]: None and "" are falsy.
Falsy(x) == x = None \/ x = ""

\* a or b: the first operand when truthy, else the second.
PyOr(a, b) == IF Falsy(a) THEN b ELSE a

\* --------------------------------------------------------------- numerics
RECURSIVE SumSq(_)
SumSq(v) == IF v = <<>> THEN 0 ELSE Head(v) * Head(v) + SumSq(Tail(v))

RECURSIVE Dot(_, _)
Dot(a, b) == IF a = <<>> THEN 0 ELSE Head(a) * Head(b) + Dot(Tail(a), Tail(b))

\* a / b rounded to the nearest grid point, b > 0.
RoundDiv(a, b) == (2 * a + b) \div (2 * b)

\* floor(sqrt(n)) by bisection on lo <= sqrt(n) < hi.
RECURSIVE ISqrtIn(_, _, _)
ISqrtIn(n, lo, hi) ==
    IF hi - lo <= 1 THEN lo
    ELSE LET mid == (lo + hi) \div 2
         IN  IF mid * mid <= n THEN ISqrtIn(n, mid, hi) ELSE ISqrtIn(n, lo, mid)

\* sqrt(n) rounded to the nearest integer.
RoundSqrt(n) ==
    LET r == ISqrtIn(n, 0, n + 1)
    IN  IF n - r * r > r THEN r + 1 ELSE r

\* np.linalg.norm of one fixed-point vector (the result is on the same grid).
Norm(v) == RoundSqrt(SumSq(v))

\* DivVec of a loader that leaves the rows as they were read.
DivVecNoOp(v, n) == v

\* v / n, element-wise.
DivVec(v, n) == [i \in 1..Len(v) |-> RoundDiv(v[i] * Scale, n)]

\* ------------------------------------------------------------ disk artifacts
\* An embeddings file: an ndarray of ndim 1 (arr is one vector) or of ndim 2
\* and shape (Len(arr), dim) (arr is a sequence of rows of length dim).
EmbFile(exists, ndim, dim, arr) ==
    [exists |-> exists, loads |-> TRUE, ndim |-> ndim, dim |-> dim, arr |-> arr]

\* A file np.load cannot read as an array.
CorruptEmbFile == [exists |-> TRUE, loads |-> FALSE, ndim |-> 2, dim |-> 0, arr |-> <<>>]

\* A JSON value of the metadata file: a single-key mapping {key: val} or a
\* scalar val.
JMap(key, val) == [tag |-> "map", key |-> key, val |-> val]
JScalar(val) == [tag |-> "scalar", key |-> "", val |-> val]

\* A metadata file: root is "dict_items" (a mapping whose "items" is a list),
\* "dict" (any other mapping), "list", "other" (any other JSON value) or
\* "malformed" (not JSON); entries are the values the root holds, in order.
MetaFile(exists, root, entries) == [exists |-> exists, root |-> root, entries |-> entries]

\* One line of the documents file.
BlankLine == [kind |-> "blank", text_extract |-> None, text |-> None, content |-> None, body |-> None]
BadLine == [kind |-> "invalid", text_extract |-> None, text |-> None, content |-> None, body |-> None]
\* A line that is JSON but not an object: a number, a string, a list, null.
NonObjLine == [kind |-> "nonobj", text_extract |-> None, text |-> None, content |-> None, body |-> None]
ObjLine(te, tx, co, bo) == [kind |-> "obj", text_extract |-> te, text |-> tx, content |-> co, body |-> bo]

DocsFile(exists, lines) == [exists |-> exists, lines |-> lines]

\* ---------------------------------------------------------- DriveVectorStore
ConfigError == "DriveVectorStoreConfigError"
NotAvailable == "DriveVectorStoreNotAvailable"
NoError == "ok"
\* What np.load, json.load and obj.get raise on input they cannot handle.
NumpyLoadError == "ValueError"
JSONDecodeError == "JSONDecodeError"
AttributeError == "AttributeError"

NoStore == [embeddings |-> <<>>, dim |-> 0, records |-> <<>>, model_name |-> None, _model |-> None]

Raise(e) == [err |-> e, val |-> NoStore]
Return(v) == [err |-> NoError, val |-> v]

DriveVectorRecord(metadata, text_extract) == [metadata |-> metadata, text_extract |-> text_extract]

\* _load_embeddings: reshape a 1-D array to one row, then divide every row by
\* its norm, a zero norm being replaced by 1.0.
_load_embeddings(f) ==
    IF ~f.loads THEN [err |-> NumpyLoadError, val |-> <<>>]
    ELSE
        LET embeddings == IF f.ndim = 1 THEN <<f.arr>> ELSE f.arr
            norms == [i \in 1..Len(embeddings) |->
                        LET n == Norm(embeddings[i]) IN IF n = 0 THEN Scale ELSE n]
        IN  [err |-> NoError,
             val |-> [i \in 1..Len(embeddings) |-> DivVec(embeddings[i], norms[i])]]

\* The row length of the loaded matrix: reshape(1, -1) makes a 1-D array of
\* length L a matrix of shape (1, L).
EmbDim(f) == IF f.ndim = 1 THEN Len(f.arr) ELSE f.dim

\* A JSON value that is not a string and is truthy: a number, a list, an
\* object.
NonString == "<json number 42>"

\* The extract of one documents line.
LineExtract(line) ==
    IF line.kind # "obj" THEN None
    ELSE PyOr(PyOr(PyOr(line.text_extract, line.text), line.content), line.body)

\* CountsAgree of a loader that lets zip drop the surplus.
CountsAgreeUnchecked(metadata_entries, documents) == TRUE

\* Line 112: the entries and the extracts are equally many.
CountsAgree(metadata_entries, documents) == Len(metadata_entries) = Len(documents)

\* WrapMeta of a loader that keeps every entry as it is.
WrapMetaNever(m) == m

\* Lines 119-120: an entry that is not a mapping becomes {"value": entry}.
WrapMeta(m) == IF m.tag # "map" THEN JMap("value", m.val) ELSE m

\* zip stops at the shorter of its two arguments.
ZipLen(a, b) == IF Len(a) < Len(b) THEN Len(a) ELSE Len(b)

\* _load_records: the metadata entries zipped with the per-line extracts.
_load_records(meta, docs) ==
    IF meta.root = "malformed" THEN
        [err |-> JSONDecodeError, val |-> <<>>]
    ELSE IF meta.root \notin {"dict_items", "dict", "list"} THEN
        [err |-> ConfigError, val |-> <<>>]
    ELSE
        LET metadata_entries == meta.entries
            documents == [i \in 1..Len(docs.lines) |-> LineExtract(docs.lines[i])]
        IN  IF \E i \in 1..Len(docs.lines) : docs.lines[i].kind = "nonobj" THEN
                [err |-> AttributeError, val |-> <<>>]
            ELSE IF ~CountsAgree(metadata_entries, documents) THEN
                [err |-> ConfigError, val |-> <<>>]
            ELSE
                [err |-> NoError,
                 val |-> [i \in 1..ZipLen(metadata_entries, documents) |->
                            DriveVectorRecord(WrapMeta(metadata_entries[i]),
                                              documents[i])]]

\* LengthsAgree of a constructor without the check of line 60.
LengthsAgreeUnchecked(embeddings, records) == TRUE

\* Whether the constructor accepts the loaded embeddings and records.
LengthsAgree(embeddings, records) == Len(embeddings) = Len(records)

\* DriveVectorStore.__init__ on the three artifacts.
DriveVectorStoreInit(d, model_name) ==
    IF ~d.emb.exists THEN Raise(ConfigError)
    ELSE IF ~d.meta.exists THEN Raise(ConfigError)
    ELSE IF ~d.docs.exists THEN Raise(ConfigError)
    ELSE
        LET embeddings == _load_embeddings(d.emb)
            loaded == _load_records(d.meta, d.docs)
        IN  IF embeddings.err # NoError THEN Raise(embeddings.err)
            ELSE IF loaded.err # NoError THEN Raise(loaded.err)
            ELSE IF ~LengthsAgree(embeddings.val, loaded.val) THEN Raise(ConfigError)
            ELSE Return([embeddings |-> embeddings.val, dim |-> EmbDim(d.emb),
                         records |-> loaded.val,
                         model_name |-> model_name, _model |-> None])

\* ------------------------------------------------------------------ numpy
ValueError == "ValueError"

\* The orders in which the indices in S can be listed.
RECURSIVE OrdersOf(_)
OrdersOf(S) ==
    IF S = {} THEN {<<>>}
    ELSE UNION {{<<i>> \o p : p \in OrdersOf(S \ {i})} : i \in S}

\* The index orders of an array of n elements.
Perms(n) == OrdersOf(1..n)

\* np.argsort(x): an index order that sorts x ascending. The default sort is
\* not stable, so equal values may come in any order.
ArgSorts(x) ==
    {p \in Perms(Len(x)) : \A i \in 1..(Len(x) - 1) : x[p[i]] <= x[p[i + 1]]}

\* np.argpartition(x, kth) for a 0-based kth in range: an index order with the
\* kth smallest value at position kth, nothing larger before it and nothing
\* smaller after it.
ArgPartitions(x, kth) ==
    {p \in Perms(Len(x)) :
        /\ \A i \in 1..kth : x[p[i]] <= x[p[kth + 1]]
        /\ \A i \in (kth + 2)..Len(x) : x[p[i]] >= x[p[kth + 1]]}

\* s[start:]
PySliceFrom(s, start) ==
    LET n == Len(s)
        from == IF start < 0 THEN (IF n + start < 0 THEN 0 ELSE n + start)
                ELSE (IF start > n THEN n ELSE start)
    IN  [i \in 1..(n - from) |-> s[from + i]]

\* s[::-1]
Reversed(s) == [i \in 1..Len(s) |-> s[Len(s) + 1 - i]]

\* ------------------------------------------------- DriveVectorStore.search
\* A query_embedding argument: absent, a flat list (ndim 1) or a nested list.
QNone == [given |-> FALSE, ndim |-> 0, arr |-> <<>>]
QVec(v) == [given |-> TRUE, ndim |-> 1, arr |-> v]
QNested(rows) == [given |-> TRUE, ndim |-> 2, arr |-> rows]

\* What model.encode(query, normalize_embeddings=True) may return: a unit
\* vector of the model's own dimensionality.
EncoderOutputs == {<<Scale, 0>>, <<0, Scale>>, <<Scale, 0, 0>>}

LoadedModel(name) == <<"SentenceTransformer", name>>

\* What SentenceTransformer(name) raises for a name it cannot resolve.
ModelLoadError == "OSError"

\* Whether SentenceTransformer(name) finds the model the name refers to.
ModelLoads(name) == name # "unknown-model"

\* BackendMissing of an _ensure_model without the guard of line 127.
BackendMissingNever(backend) == FALSE

\* Line 127: SentenceTransformer is None.
BackendMissing(backend) == ~backend

\* NameMissing of an _ensure_model that only rejects an absent name.
NameMissingNoneOnly(name) == name = None

\* Line 132: not self.model_name.
NameMissing(name) == Falsy(name)

\* _ensure_model: the cached model, else a model built from model_name when
\* the backend is importable and a name is configured.
_ensure_model(store, backend) ==
    IF store._model # None THEN [err |-> NoError, _model |-> store._model]
    ELSE IF BackendMissing(backend) THEN [err |-> ConfigError, _model |-> store._model]
    ELSE IF NameMissing(store.model_name)
    THEN [err |-> ConfigError, _model |-> store._model]
    ELSE IF ~ModelLoads(store.model_name)
    THEN [err |-> ModelLoadError, _model |-> store._model]
    ELSE [err |-> NoError, _model |-> LoadedModel(store.model_name)]

\* encode_query: the outcomes [err, vector, _model, encoded] of encoding a text
\* query; encoded records that encode_query was called.
encode_query(store, query, backend) ==
    LET m == _ensure_model(store, backend)
    IN  IF m.err # NoError
        THEN {[err |-> m.err, vector |-> <<>>, _model |-> m._model, encoded |-> TRUE]}
        ELSE {[err |-> NoError, vector |-> e, _model |-> m._model, encoded |-> TRUE] :
                e \in EncoderOutputs}

\* EmbeddingGiven of a search that always encodes the text query.
EmbeddingGivenNever(query, qe) == FALSE

\* EmbeddingGiven of a search that prefers the text query when it has both.
EmbeddingGivenUnlessQuery(query, qe) == qe.given /\ Falsy(query)

\* Line 153: query_embedding is not None.
EmbeddingGiven(query, qe) == qe.given

\* QueryMissing of a search that only rejects an absent query.
QueryMissingNoneOnly(query) == query = None

\* Line 162: not query.
QueryMissing(query) == Falsy(query)

\* Lines 153-164: the query vector, from query_embedding when it is given and
\* else from the text query.
QueryVector(store, query, qe, backend) ==
    IF EmbeddingGiven(query, qe) THEN
        IF qe.ndim # 1
        THEN {[err |-> ConfigError, vector |-> <<>>, _model |-> store._model,
               encoded |-> FALSE]}
        ELSE LET norm == Norm(qe.arr)
             IN  IF norm = 0
                 THEN {[err |-> ConfigError, vector |-> <<>>, _model |-> store._model,
                        encoded |-> FALSE]}
                 ELSE {[err |-> NoError, vector |-> DivVec(qe.arr, norm),
                        _model |-> store._model, encoded |-> FALSE]}
    ELSE IF QueryMissing(query)
        THEN {[err |-> ConfigError, vector |-> <<>>, _model |-> store._model,
               encoded |-> FALSE]}
        ELSE encode_query(store, query, backend)

\* Line 166: self.embeddings @ vector, one score per row.
Scores(store, vector) ==
    [i \in 1..Len(store.embeddings) |-> RoundDiv(Dot(store.embeddings[i], vector), Scale)]

\* Line 168: the tail [-top_k:] of the partition order.
SelectedFirst(p, top_k) == [i \in 1..(IF top_k < 0 THEN 0 ELSE top_k) |-> p[i]]
Selected(p, top_k) == PySliceFrom(p, 0 - top_k)

\* Line 169: the selection reordered by argsort(...)[::-1].
SortSelectedAscending(sel, q) == [j \in 1..Len(sel) |-> sel[q[j]]]
SortSelected(sel, q) == [j \in 1..Len(sel) |-> sel[Reversed(q)[j]]]

\* Line 171: argsort(scores)[::-1].
AllAscending(p) == p
AllDescending(p) == Reversed(p)

\* Lines 167-171: the index orders top_indices may take, or the ValueError of
\* argpartition for a kth out of bounds.
TopIndices(scores, top_k) ==
    LET n == Len(scores)
    IN  IF top_k < n THEN
            LET kth == IF 0 - top_k < 0 THEN n - top_k ELSE 0 - top_k
            IN  IF kth < 0 \/ kth >= n
                THEN {[err |-> ValueError, idx |-> <<>>]}
                ELSE UNION {
                        {[err |-> NoError, idx |-> SortSelected(sel, q)] :
                            q \in ArgSorts([j \in 1..Len(sel) |-> scores[sel[j]]])} :
                        sel \in {Selected(p, top_k) : p \in ArgPartitions(scores, kth)}}
        ELSE {[err |-> NoError, idx |-> AllDescending(p)] : p \in ArgSorts(scores)}

\* Results of a loop that takes the record at the position in the result
\* list, not at the index.
ResultsByPosition(store, scores, idx) ==
    [j \in 1..Len(idx) |->
        [score |-> scores[idx[j]], idx |-> idx[j], record |-> store.records[j]]]

\* Lines 173-178: the (score, record) pairs; idx is the identity of the record
\* object the pair references, self.records[idx].
Results(store, scores, idx) ==
    [j \in 1..Len(idx) |->
        [score |-> scores[idx[j]], idx |-> idx[j], record |-> store.records[idx[j]]]]

\* ShapesAgree of a product that accepts any vector.
ShapesAgreeAlways(store, vector) == TRUE

\* Line 166: the matrix product is defined when the vector has as many
\* components as the rows; numpy raises ValueError otherwise.
ShapesAgree(store, vector) == Len(vector) = store.dim

\* search: every outcome of one call: what it raised (err), the list it
\* returned (results), the store's _model afterwards, the local vector of
\* line 166 (<<>> when the call raised before it had one) and whether
\* encode_query was called.
Search(store, query, qe, top_k, backend) ==
    UNION {
        IF v.err # NoError
        THEN {[err |-> v.err, results |-> <<>>, _model |-> v._model, vector |-> <<>>,
               encoded |-> v.encoded]}
        ELSE IF ~ShapesAgree(store, v.vector)
        THEN {[err |-> ValueError, results |-> <<>>, _model |-> v._model,
               vector |-> v.vector, encoded |-> v.encoded]}
        ELSE UNION {
                {IF ti.err # NoError
                 THEN [err |-> ti.err, results |-> <<>>, _model |-> v._model,
                       vector |-> v.vector, encoded |-> v.encoded]
                 ELSE [err |-> NoError, results |-> Results(store, scores, ti.idx),
                       _model |-> v._model, vector |-> v.vector, encoded |-> v.encoded] :
                    ti \in TopIndices(scores, top_k)} :
                scores \in {Scores(store, v.vector)}} :
        v \in QueryVector(store, query, qe, backend)}

\* ------------------------------------------------------------- environment
VARIABLES
    settings,              \* the settings object get_drive_vector_store reads
    disk,                  \* the three artifacts the configured paths name
    envChanges             \* settings and artifact changes made so far

\* The configuration options of the vector store: the feature flag, the three
\* artifact paths and the model name.
Settings(enabled, ep, mp, dp, model) ==
    [drive_vector_enabled |-> enabled,
     drive_vector_embeddings_path |-> ep,
     drive_vector_metadata_path |-> mp,
     drive_vector_documents_path |-> dp,
     drive_vector_model_name |-> model]

\* The configurations the accessor is exercised with: the flag on or off, and
\* the paths all set or one of them unset or empty.
SettingsValues ==
    { Settings(en, p[1], p[2], p[3], "model") :
        en \in BOOLEAN,
        p \in { <<"emb.npy", "meta.json", "docs.jsonl">>,
                <<None, "meta.json", "docs.jsonl">>,
                <<"emb.npy", "", "docs.jsonl">>,
                <<"emb.npy", "meta.json", None>> } }

PathsConfigured(s) ==
    /\ ~Falsy(s.drive_vector_embeddings_path)
    /\ ~Falsy(s.drive_vector_metadata_path)
    /\ ~Falsy(s.drive_vector_documents_path)

TwoRows == <<<<Scale, 0>>, <<0, Scale>>>>
TwoDocs == <<ObjLine("t1", None, None, None), BlankLine>>

\* Artifacts that load, artifacts whose counts disagree, a missing file and an
\* embeddings file that is not an array.
GoodDisk ==
    [emb |-> EmbFile(TRUE, 2, 2, TwoRows),
     meta |-> MetaFile(TRUE, "list", <<JMap("id", "a"), JMap("id", "b")>>),
     docs |-> DocsFile(TRUE, TwoDocs)]
MismatchDisk ==
    [emb |-> EmbFile(TRUE, 2, 2, TwoRows),
     meta |-> MetaFile(TRUE, "list", <<JMap("id", "a")>>),
     docs |-> DocsFile(TRUE, <<BlankLine>>)]
MissingDisk ==
    [emb |-> EmbFile(FALSE, 2, 2, <<>>),
     meta |-> MetaFile(TRUE, "list", <<JMap("id", "a"), JMap("id", "b")>>),
     docs |-> DocsFile(TRUE, TwoDocs)]
CorruptDisk ==
    [emb |-> CorruptEmbFile,
     meta |-> MetaFile(TRUE, "list", <<JMap("id", "a"), JMap("id", "b")>>),
     docs |-> DocsFile(TRUE, TwoDocs)]
AccessorDisks == {GoodDisk, MismatchDisk, MissingDisk, CorruptDisk}

\* ------------------------------------------------- get_drive_vector_store
VARIABLES
    _DRIVE_VECTOR_STORE,   \* the cached instance: 0 is None, else an index of heap
    _LOCK,                 \* the thread holding _LOCK, 0 when it is free
    heap,                  \* the DriveVectorStore objects constructed so far
    pc,                    \* each thread's position in get_drive_vector_store
    calls,                 \* calls of get_drive_vector_store started so far
    result,                \* what each thread's latest call returned or raised
    paths,                 \* each thread's locals embeddings/metadata/documents_path
    ctorRuns,              \* invocations of DriveVectorStore(...) so far
    ctorFailed,            \* invocations that raised
    startedCached,         \* whether the thread's call started with an instance cached
    cleanRun               \* the flag was on and the paths set all along

accVars == <<settings, disk, envChanges, _DRIVE_VECTOR_STORE, _LOCK, heap, pc, calls,
             result, paths, ctorRuns, ctorFailed, startedCached, cleanRun>>

Pending == [kind |-> "pending", inst |-> 0, err |-> NoError]
NoResult == [kind |-> "none", inst |-> 0, err |-> NoError]
Returned(i) == [kind |-> "return", inst |-> i, err |-> NoError]
Raised(e) == [kind |-> "raise", inst |-> 0, err |-> e]

NoPaths == <<None, None, None>>

AccInit ==
    /\ settings \in SettingsValues
    /\ disk \in AccessorDisks
    /\ envChanges = 0
    /\ _DRIVE_VECTOR_STORE = 0
    /\ _LOCK = 0
    /\ heap = <<>>
    /\ pc = [t \in Threads |-> "idle"]
    /\ calls = 0
    /\ result = [t \in Threads |-> NoResult]
    /\ paths = [t \in Threads |-> NoPaths]
    /\ ctorRuns = 0
    /\ ctorFailed = 0
    /\ startedCached = [t \in Threads |-> FALSE]
    /\ cleanRun = (settings.drive_vector_enabled /\ PathsConfigured(settings))

\* CheckEnabled with the two early checks swapped: the cached instance is
\* returned before the flag is read.
CheckEnabledAfterCache(t) ==
    /\ pc[t] = "idle"
    /\ calls < MaxCalls
    /\ calls' = calls + 1
    /\ startedCached' = [startedCached EXCEPT ![t] = (_DRIVE_VECTOR_STORE # 0)]
    /\ paths' = [paths EXCEPT ![t] = NoPaths]
    /\ IF _DRIVE_VECTOR_STORE # 0
       THEN /\ result' = [result EXCEPT ![t] = Returned(_DRIVE_VECTOR_STORE)]
            /\ pc' = pc
       ELSE IF ~settings.drive_vector_enabled
       THEN /\ result' = [result EXCEPT ![t] = Raised(NotAvailable)]
            /\ pc' = pc
       ELSE /\ result' = [result EXCEPT ![t] = Pending]
            /\ pc' = [pc EXCEPT ![t] = "L192"]
    /\ UNCHANGED <<settings, disk, envChanges, _DRIVE_VECTOR_STORE, _LOCK, heap,
                   ctorRuns, ctorFailed, cleanRun>>

\* Line 189-190: the call starts by reading the feature flag.
CheckEnabled(t) ==
    /\ pc[t] = "idle"
    /\ calls < MaxCalls
    /\ calls' = calls + 1
    /\ startedCached' = [startedCached EXCEPT ![t] = (_DRIVE_VECTOR_STORE # 0)]
    /\ paths' = [paths EXCEPT ![t] = NoPaths]
    /\ IF ~settings.drive_vector_enabled
       THEN /\ result' = [result EXCEPT ![t] = Raised(NotAvailable)]
            /\ pc' = pc
       ELSE /\ result' = [result EXCEPT ![t] = Pending]
            /\ pc' = [pc EXCEPT ![t] = "L192"]
    /\ UNCHANGED <<settings, disk, envChanges, _DRIVE_VECTOR_STORE, _LOCK, heap,
                   ctorRuns, ctorFailed, cleanRun>>

\* CheckCached without the fast path: every call goes on to the lock.
CheckCachedNoFastPath(t) ==
    /\ pc[t] = "L192"
    /\ pc' = [pc EXCEPT ![t] = "L195"]
    /\ UNCHANGED <<settings, disk, envChanges, _DRIVE_VECTOR_STORE, _LOCK, heap, calls,
                   result, paths, ctorRuns, ctorFailed, startedCached, cleanRun>>

\* Line 192: the check outside the lock.
CheckCached(t) ==
    /\ pc[t] = "L192"
    /\ pc' = [pc EXCEPT ![t] = IF _DRIVE_VECTOR_STORE # 0 THEN "L193" ELSE "L195"]
    /\ UNCHANGED <<settings, disk, envChanges, _DRIVE_VECTOR_STORE, _LOCK, heap, calls,
                   result, paths, ctorRuns, ctorFailed, startedCached, cleanRun>>

\* Line 193: the fast path returns the global.
ReturnCached(t) ==
    /\ pc[t] = "L193"
    /\ result' = [result EXCEPT ![t] = Returned(_DRIVE_VECTOR_STORE)]
    /\ pc' = [pc EXCEPT ![t] = "idle"]
    /\ UNCHANGED <<settings, disk, envChanges, _DRIVE_VECTOR_STORE, _LOCK, heap, calls,
                   paths, ctorRuns, ctorFailed, startedCached, cleanRun>>

\* AcquireLock that does not wait for the lock to be free.
AcquireLockNoWait(t) ==
    /\ pc[t] = "L195"
    /\ _LOCK' = t
    /\ pc' = [pc EXCEPT ![t] = "L196"]
    /\ UNCHANGED <<settings, disk, envChanges, _DRIVE_VECTOR_STORE, heap, calls,
                   result, paths, ctorRuns, ctorFailed, startedCached, cleanRun>>

\* Line 195: with _LOCK blocks until the lock is free.
AcquireLock(t) ==
    /\ pc[t] = "L195"
    /\ _LOCK = 0
    /\ _LOCK' = t
    /\ pc' = [pc EXCEPT ![t] = "L196"]
    /\ UNCHANGED <<settings, disk, envChanges, _DRIVE_VECTOR_STORE, heap, calls,
                   result, paths, ctorRuns, ctorFailed, startedCached, cleanRun>>

\* MustBuild without the check inside the lock.
AlwaysBuild == TRUE

\* Whether the holder of the lock goes on to build (line 196).
MustBuild == _DRIVE_VECTOR_STORE = 0

\* Recheck of an accessor that gives the lock back before it builds.
RecheckReleasesEarly(t) ==
    /\ pc[t] = "L196"
    /\ pc' = [pc EXCEPT ![t] = IF MustBuild THEN "L197" ELSE "L213"]
    /\ _LOCK' = 0
    /\ UNCHANGED <<settings, disk, envChanges, _DRIVE_VECTOR_STORE, heap, calls,
                   result, paths, ctorRuns, ctorFailed, startedCached, cleanRun>>

\* Line 196: the check inside the lock; when an instance is there the with
\* block ends and the lock is released.
Recheck(t) ==
    /\ pc[t] = "L196"
    /\ IF MustBuild
       THEN /\ pc' = [pc EXCEPT ![t] = "L197"]
            /\ _LOCK' = _LOCK
       ELSE /\ pc' = [pc EXCEPT ![t] = "L213"]
            /\ _LOCK' = 0
    /\ UNCHANGED <<settings, disk, envChanges, _DRIVE_VECTOR_STORE, heap, calls,
                   result, paths, ctorRuns, ctorFailed, startedCached, cleanRun>>

\* Lines 197-199: the three path settings are read into locals.
ReadPaths(t) ==
    /\ pc[t] = "L197"
    /\ paths' = [paths EXCEPT ![t] = <<settings.drive_vector_embeddings_path,
                                       settings.drive_vector_metadata_path,
                                       settings.drive_vector_documents_path>>]
    /\ pc' = [pc EXCEPT ![t] = "L201"]
    /\ UNCHANGED <<settings, disk, envChanges, _DRIVE_VECTOR_STORE, _LOCK, heap, calls,
                   result, ctorRuns, ctorFailed, startedCached, cleanRun>>

\* PathMissing that forgets the documents path.
PathMissingTwo(p) == Falsy(p[1]) \/ Falsy(p[2])

\* The condition of line 201.
PathMissing(p) == Falsy(p[1]) \/ Falsy(p[2]) \/ Falsy(p[3])

\* CheckPaths of an accessor that raises without giving the lock back.
CheckPathsKeepsLock(t) ==
    /\ pc[t] = "L201"
    /\ IF PathMissing(paths[t])
       THEN /\ result' = [result EXCEPT ![t] = Raised(ConfigError)]
            /\ pc' = [pc EXCEPT ![t] = "idle"]
       ELSE /\ pc' = [pc EXCEPT ![t] = "L207"]
            /\ UNCHANGED result
    /\ UNCHANGED <<settings, disk, envChanges, _DRIVE_VECTOR_STORE, _LOCK, heap, calls,
                   paths, ctorRuns, ctorFailed, startedCached, cleanRun>>

\* Lines 201-205: a missing path raises out of the with block, which releases
\* the lock.
CheckPaths(t) ==
    /\ pc[t] = "L201"
    /\ IF PathMissing(paths[t])
       THEN /\ result' = [result EXCEPT ![t] = Raised(ConfigError)]
            /\ pc' = [pc EXCEPT ![t] = "idle"]
            /\ _LOCK' = 0
       ELSE /\ pc' = [pc EXCEPT ![t] = "L207"]
            /\ UNCHANGED <<result, _LOCK>>
    /\ UNCHANGED <<settings, disk, envChanges, _DRIVE_VECTOR_STORE, heap, calls,
                   paths, ctorRuns, ctorFailed, startedCached, cleanRun>>

\* CachedAfterFailure of an accessor that marks the failure in the global.
CachedFailureMarker == Len(heap) + 1

\* What line 207 leaves in the global when the constructor raised: the
\* assignment never ran.
CachedAfterFailure == _DRIVE_VECTOR_STORE

\* Lines 207-212: the constructor runs; its instance is assigned to the global
\* and the with block ends, or its exception leaves the with block. Either way
\* the lock is released.
Construct(t) ==
    /\ pc[t] = "L207"
    /\ ctorRuns' = ctorRuns + 1
    /\ _LOCK' = 0
    /\ LET r == DriveVectorStoreInit(disk, settings.drive_vector_model_name)
       IN  IF r.err = NoError
           THEN /\ heap' = Append(heap, r.val)
                /\ _DRIVE_VECTOR_STORE' = Len(heap) + 1
                /\ pc' = [pc EXCEPT ![t] = "L213"]
                /\ UNCHANGED <<result, ctorFailed, cleanRun>>
           ELSE /\ _DRIVE_VECTOR_STORE' = CachedAfterFailure
                /\ result' = [result EXCEPT ![t] = Raised(r.err)]
                /\ pc' = [pc EXCEPT ![t] = "idle"]
                /\ ctorFailed' = ctorFailed + 1
                /\ cleanRun' = FALSE
                /\ UNCHANGED heap
    /\ UNCHANGED <<settings, disk, envChanges, calls, paths, startedCached>>

\* Line 213: return the global, read after the with block.
ReturnStore(t) ==
    /\ pc[t] = "L213"
    /\ result' = [result EXCEPT ![t] = Returned(_DRIVE_VECTOR_STORE)]
    /\ pc' = [pc EXCEPT ![t] = "idle"]
    /\ UNCHANGED <<settings, disk, envChanges, _DRIVE_VECTOR_STORE, _LOCK, heap, calls,
                   paths, ctorRuns, ctorFailed, startedCached, cleanRun>>

\* The operator changes the configuration.
Reconfigure ==
    /\ envChanges < MaxEnvChanges
    /\ envChanges' = envChanges + 1
    /\ \E s \in SettingsValues \ {settings} :
          /\ settings' = s
          /\ cleanRun' = (cleanRun /\ s.drive_vector_enabled /\ PathsConfigured(s))
    /\ UNCHANGED <<disk, _DRIVE_VECTOR_STORE, _LOCK, heap, pc, calls, result, paths,
                   ctorRuns, ctorFailed, startedCached>>

\* The operator replaces the artifacts on disk.
RewriteArtifacts ==
    /\ envChanges < MaxEnvChanges
    /\ envChanges' = envChanges + 1
    /\ \E d \in AccessorDisks \ {disk} : disk' = d
    /\ UNCHANGED <<settings, _DRIVE_VECTOR_STORE, _LOCK, heap, pc, calls, result, paths,
                   ctorRuns, ctorFailed, startedCached, cleanRun>>

\* --------------------------------------- one store: construction and search
VARIABLES
    store,                 \* the DriveVectorStore under test, NoStore before it is built
    phase,                 \* "unbuilt", "failed" when __init__ raised, "built", and
                           \* "searched" while a caller holds the outcome of a search
    initErr,               \* what __init__ raised, NoError otherwise
    backend,               \* whether sentence_transformers imported (line 13-16)
    call,                  \* the arguments of the latest search call
    out,                   \* what the latest search call returned or raised
    encodeFailed           \* a text query of this store raised in _ensure_model

storeVars == <<store, phase, initErr, backend, call, out, encodeFailed>>

\* Threads searching one store with text queries.
VARIABLES
    epc,                   \* each thread's position in search and _ensure_model
    emodel,                \* the model _ensure_model returned to the thread
    eres,                  \* how the thread's latest search ended
    searches,              \* text-query searches started so far
    modelLoads             \* models SentenceTransformer(...) has constructed so far

encVars == <<epc, emodel, eres, searches, modelLoads>>

vars == <<accVars, storeVars, encVars>>

EncIdle ==
    /\ epc = [t \in Threads |-> "idle"]
    /\ emodel = [t \in Threads |-> None]
    /\ eres = [t \in Threads |-> "none"]
    /\ searches = 0
    /\ modelLoads = 0

NoCall == [query |-> None, query_embedding |-> QNone, top_k |-> 0]
NoOut == [err |-> NoError, results |-> <<>>, _model |-> None, vector |-> <<>>,
          encoded |-> FALSE]

StoreIdle ==
    /\ store = NoStore
    /\ phase = "unbuilt"
    /\ initErr = NoError
    /\ backend = FALSE
    /\ call = NoCall
    /\ out = NoOut
    /\ encodeFailed = FALSE

AccIdle ==
    /\ envChanges = 0
    /\ _DRIVE_VECTOR_STORE = 0
    /\ _LOCK = 0
    /\ heap = <<>>
    /\ pc = [t \in Threads |-> "idle"]
    /\ calls = 0
    /\ result = [t \in Threads |-> NoResult]
    /\ paths = [t \in Threads |-> NoPaths]
    /\ ctorRuns = 0
    /\ ctorFailed = 0
    /\ startedCached = [t \in Threads |-> FALSE]
    /\ cleanRun = TRUE

\* Embedding rows as they may be on disk, normalized or not.
Unit06 == <<(6 * Scale) \div 10, (8 * Scale) \div 10>>
RowVectors == {<<Scale, 0>>, <<0, Scale>>, Unit06, <<0, 0>>, <<0 - 2 * Scale, 0>>}
SearchRows == RowVectors \ {<<0, 0>>}

RECURSIVE SeqsOf(_, _)
SeqsOf(S, n) ==
    IF n = 0 THEN {<<>>}
    ELSE {Append(q, x) : q \in SeqsOf(S, n - 1), x \in S}

\* The embeddings files with rows from V: 1-D, or 2-D of up to MaxRows rows.
EmbFilesOver(V) ==
    {EmbFile(TRUE, 1, 2, v) : v \in V}
        \cup UNION {{EmbFile(TRUE, 2, 2, rows) : rows \in SeqsOf(V, n)} : n \in 0..MaxRows}

EmbFiles == {EmbFile(FALSE, 2, 2, <<>>), CorruptEmbFile} \cup EmbFilesOver(RowVectors)

\* The ids of the records, by position.
IdAt(i) == <<"a", "b", "c", "d", "e", "f", "g", "h">>[i]

\* Metadata entries and document lines by position.
EntryAt(i) == IF i % 2 = 0 THEN JScalar(IdAt(i)) ELSE JMap("id", IdAt(i))
LineAt(i) ==
    IF i % 3 = 1 THEN ObjLine("text", None, None, None)
    ELSE IF i % 3 = 2 THEN BlankLine
    ELSE BadLine

MetaFiles ==
    {MetaFile(FALSE, "list", <<>>), MetaFile(TRUE, "malformed", <<>>)}
        \cup {MetaFile(TRUE, root, [i \in 1..n |-> EntryAt(i)]) :
                root \in {"list", "dict_items", "other"}, n \in 0..MaxRows}

DocsFiles ==
    {DocsFile(FALSE, <<>>)}
        \cup {DocsFile(TRUE, [i \in 1..n |-> LineAt(i)]) : n \in 0..MaxRows}
        \cup {DocsFile(TRUE, [i \in 1..n |-> IF i = n THEN NonObjLine ELSE LineAt(i)]) :
                n \in 1..MaxRows}

\* The values obj.get may find under one field of a documents line: nothing,
\* the empty string, a string of the field's own, or a value that is no string.
FieldValues(own) == {None, "", own, NonString}

\* Every object line over those values.
ObjLines ==
    {ObjLine(te, tx, co, bo) :
        te \in FieldValues("te"), tx \in FieldValues("tx"),
        co \in FieldValues("co"), bo \in FieldValues("bo")}

\* Documents files of n lines: every sequence of line kinds, and every object
\* line at every position among the lines of LineAt.
RecordDocs(n) ==
    {DocsFile(TRUE, lines) :
        lines \in SeqsOf({BlankLine, BadLine, NonObjLine,
                          ObjLine(None, "tx", None, None)}, n)}
        \cup {DocsFile(TRUE, [i \in 1..n |-> IF i = k THEN l ELSE LineAt(i)]) :
                k \in 1..n, l \in ObjLines}

\* Metadata of n entries under each accepted root, mappings and scalars
\* alternating from either start.
RecordMetas(n) ==
    {MetaFile(TRUE, root, [i \in 1..n |-> EntryAt(i + shift)]) :
        root \in {"list", "dict", "dict_items"}, shift \in {0, 1}}

\* Artifacts of n embedding rows, n metadata entries and n lines.
RecordDisks(n) ==
    {[emb |-> EmbFile(TRUE, 2, 2, [i \in 1..n |-> <<Scale, 0>>]),
      meta |-> meta,
      docs |-> docs] : meta \in RecordMetas(n), docs \in RecordDocs(n)}

\* Before DriveVectorStore(...) is called on artifacts whose counts agree.
RecordsInit ==
    /\ settings = Settings(TRUE, "emb.npy", "meta.json", "docs.jsonl", "model")
    /\ \E n \in 0..MaxRows : disk \in RecordDisks(n)
    /\ AccIdle
    /\ StoreIdle
    /\ EncIdle

\* Input vectors of an embeddings file: unit and zero vectors, and vectors
\* shorter and longer than 1.
NormVectors ==
    {<<Scale, 0>>, Unit06, <<0, 0>>, <<0 - 2 * Scale, 0>>, <<Scale, Scale>>,
     <<3 * (Scale \div 2), 2 * Scale>>, <<Scale \div 2, 0 - Scale>>, <<Scale, 2 * Scale>>}

\* Embeddings files of n rows: a 2-D array of n rows, and for n = 1 also a 1-D
\* array of two or three components.
NormEmbFiles(n) ==
    {EmbFile(TRUE, 2, 2, rows) : rows \in SeqsOf(NormVectors, n)}
        \cup (IF n = 1
              THEN {EmbFile(TRUE, 1, 2, v) :
                        v \in NormVectors \cup {<<Scale, Scale, Scale>>, <<0, 0, 0>>}}
              ELSE {})

\* Artifacts of n rows with as many entries and lines.
NormDisks(n) ==
    {[emb |-> e,
      meta |-> MetaFile(TRUE, "list", [i \in 1..n |-> JMap("id", IdAt(i))]),
      docs |-> DocsFile(TRUE, [i \in 1..n |-> LineAt(i)])] : e \in NormEmbFiles(n)}

\* Before DriveVectorStore(...) is called on embeddings of every magnitude.
NormInit ==
    /\ settings = Settings(TRUE, "emb.npy", "meta.json", "docs.jsonl", "model")
    /\ \E n \in 0..MaxRows : disk \in NormDisks(n)
    /\ AccIdle
    /\ StoreIdle
    /\ EncIdle

\* Before DriveVectorStore(...) is called on some artifacts.
LoadInit ==
    /\ settings = Settings(TRUE, "emb.npy", "meta.json", "docs.jsonl", "model")
    /\ disk \in [emb : EmbFiles, meta : MetaFiles, docs : DocsFiles]
    /\ AccIdle
    /\ StoreIdle
    /\ EncIdle

\* Artifacts of n aligned rows, entries {"id": ...} and lines.
SearchDisks ==
    {[emb |-> e,
      meta |-> MetaFile(TRUE, "list",
                        [i \in 1..Len(_load_embeddings(e).val) |-> JMap("id", IdAt(i))]),
      docs |-> DocsFile(TRUE, [i \in 1..Len(_load_embeddings(e).val) |-> LineAt(i)])] :
        e \in EmbFilesOver(SearchRows)}

\* The model names a store is configured with: none, the empty string, a
\* model the backend can load and one it cannot.
ModelNames == {None, "", "model", "unknown-model"}

\* A store constructed from aligned artifacts, before any search.
SearchInit ==
    /\ settings \in {Settings(TRUE, "emb.npy", "meta.json", "docs.jsonl", m) :
                        m \in {None, "model"}}
    /\ disk \in SearchDisks
    /\ AccIdle
    /\ store = DriveVectorStoreInit(disk, settings.drive_vector_model_name).val
    /\ phase = "built"
    /\ initErr = NoError
    /\ backend \in BOOLEAN
    /\ call = NoCall
    /\ out = NoOut
    /\ encodeFailed = FALSE
    /\ EncIdle

\* The rows np.load finds in an embeddings file.
RowsIn(e) == IF e.ndim = 1 THEN 1 ELSE Len(e.arr)

\* Artifacts of n aligned rows drawn from two vectors.
QueryDisks ==
    {[emb |-> e,
      meta |-> MetaFile(TRUE, "list", [i \in 1..RowsIn(e) |-> JMap("id", IdAt(i))]),
      docs |-> DocsFile(TRUE, [i \in 1..RowsIn(e) |-> LineAt(i)])] :
        e \in EmbFilesOver({<<Scale, 0>>, Unit06})}

\* A store constructed from aligned artifacts under every configuration of
\* the encoder, before any search.
QueryInit ==
    /\ settings \in {Settings(TRUE, "emb.npy", "meta.json", "docs.jsonl", m) :
                        m \in ModelNames}
    /\ disk \in QueryDisks
    /\ AccIdle
    /\ store = DriveVectorStoreInit(disk, settings.drive_vector_model_name).val
    /\ phase = "built"
    /\ initErr = NoError
    /\ backend \in BOOLEAN
    /\ call = NoCall
    /\ out = NoOut
    /\ encodeFailed = FALSE
    /\ EncIdle

\* DriveVectorStore(...) on the artifacts.
NewStore ==
    /\ phase = "unbuilt"
    /\ LET r == DriveVectorStoreInit(disk, settings.drive_vector_model_name)
       IN  /\ store' = r.val
           /\ initErr' = r.err
           /\ phase' = IF r.err = NoError THEN "built" ELSE "failed"
    /\ UNCHANGED <<backend, call, out, encodeFailed>>
    /\ UNCHANGED accVars

\* The arguments search is called with: <<query, query_embedding>> pairs and
\* top_k values.
QueryEmbeddings ==
    {QNone, QNested(<<<<Scale, 0>>>>)}
        \cup {QVec(v) : v \in {<<Scale, 0>>, <<0, 2 * Scale>>, Unit06, <<0, 0>>, <<>>,
                               <<Scale, 0, 0>>}}
QueryArgs ==
    {<<None, qe>> : qe \in QueryEmbeddings}
        \cup {<<"q", qe>> : qe \in {QNone, QVec(<<Scale, 0>>), QVec(<<0, 0>>),
                                    QNested(<<<<Scale, 0>>>>)}}
        \cup {<<"", QNone>>}
TopKs == (0 - 1)..(MaxRows + 1)

\* StoreAfter of a search that reorders the matrix in place.
StoreAfterReordered(s, o) ==
    [s EXCEPT !._model = o._model, !.embeddings = Reversed(s.embeddings)]

\* The store after a search of outcome o: the only attribute search assigns
\* is _model (line 136, through encode_query).
StoreAfter(s, o) == [s EXCEPT !._model = o._model]

\* store.search(query=..., query_embedding=..., top_k=...)
DoSearch ==
    /\ phase = "built"
    /\ \E qa \in QueryArgs, top_k \in TopKs :
          /\ call' = [query |-> qa[1], query_embedding |-> qa[2], top_k |-> top_k]
          /\ \E o \in Search(store, qa[1], qa[2], top_k, backend) :
                /\ out' = o
                /\ store' = StoreAfter(store, o)
                /\ encodeFailed' = (encodeFailed \/ (o.encoded /\ o.vector = <<>>))
    /\ phase' = "searched"
    /\ UNCHANGED <<initErr, backend>>
    /\ UNCHANGED accVars

\* The request that searched ends and drops its results.
EndRequest ==
    /\ phase = "searched"
    /\ phase' = "built"
    /\ call' = NoCall
    /\ out' = NoOut
    /\ UNCHANGED <<store, initErr, backend, encodeFailed>>
    /\ UNCHANGED accVars

\* ------------------------------------ concurrent text-query searches
\* A store constructed from the artifacts of GoodDisk, before any search.
EncodeInit ==
    /\ settings \in {Settings(TRUE, "emb.npy", "meta.json", "docs.jsonl", m) :
                        m \in ModelNames}
    /\ disk = GoodDisk
    /\ AccIdle
    /\ store = DriveVectorStoreInit(disk, settings.drive_vector_model_name).val
    /\ phase = "built"
    /\ initErr = NoError
    /\ backend \in BOOLEAN
    /\ call = NoCall
    /\ out = NoOut
    /\ encodeFailed = FALSE
    /\ EncIdle

\* Lines 153, 162, 164, 140: search with a non-empty query and no
\* query_embedding calls encode_query, which calls _ensure_model.
EnterSearch(t) ==
    /\ epc[t] = "idle"
    /\ searches < MaxCalls
    /\ searches' = searches + 1
    /\ epc' = [epc EXCEPT ![t] = "L125"]
    /\ emodel' = [emodel EXCEPT ![t] = None]
    /\ eres' = [eres EXCEPT ![t] = "pending"]
    /\ UNCHANGED <<modelLoads, storeVars, accVars>>

\* Line 125-126: the cached model is returned when there is one.
EnsureCached(t) ==
    /\ epc[t] = "L125"
    /\ IF store._model # None
       THEN /\ emodel' = [emodel EXCEPT ![t] = store._model]
            /\ epc' = [epc EXCEPT ![t] = "L141"]
       ELSE /\ epc' = [epc EXCEPT ![t] = "L127"]
            /\ UNCHANGED emodel
    /\ UNCHANGED <<eres, searches, modelLoads, storeVars, accVars>>

\* Lines 127-131.
EnsureBackend(t) ==
    /\ epc[t] = "L127"
    /\ IF BackendMissing(backend)
       THEN /\ eres' = [eres EXCEPT ![t] = ConfigError]
            /\ epc' = [epc EXCEPT ![t] = "idle"]
       ELSE /\ epc' = [epc EXCEPT ![t] = "L132"]
            /\ UNCHANGED eres
    /\ UNCHANGED <<emodel, searches, modelLoads, storeVars, accVars>>

\* Lines 132-135.
EnsureName(t) ==
    /\ epc[t] = "L132"
    /\ IF NameMissing(store.model_name)
       THEN /\ eres' = [eres EXCEPT ![t] = ConfigError]
            /\ epc' = [epc EXCEPT ![t] = "idle"]
       ELSE /\ epc' = [epc EXCEPT ![t] = "L136"]
            /\ UNCHANGED eres
    /\ UNCHANGED <<emodel, searches, modelLoads, storeVars, accVars>>

\* Line 136: SentenceTransformer(self.model_name) runs and its model is
\* assigned to self._model, or its exception leaves the call.
BuildModel(t) ==
    /\ epc[t] = "L136"
    /\ IF ModelLoads(store.model_name)
       THEN /\ store' = [store EXCEPT !._model = LoadedModel(store.model_name)]
            /\ modelLoads' = modelLoads + 1
            /\ epc' = [epc EXCEPT ![t] = "L137"]
            /\ UNCHANGED eres
       ELSE /\ eres' = [eres EXCEPT ![t] = ModelLoadError]
            /\ epc' = [epc EXCEPT ![t] = "idle"]
            /\ UNCHANGED <<store, modelLoads>>
    /\ UNCHANGED <<emodel, searches, phase, initErr, backend, call, out, encodeFailed,
                   accVars>>

\* Line 137: return self._model.
ReturnModel(t) ==
    /\ epc[t] = "L137"
    /\ emodel' = [emodel EXCEPT ![t] = store._model]
    /\ epc' = [epc EXCEPT ![t] = "L141"]
    /\ UNCHANGED <<eres, searches, modelLoads, storeVars, accVars>>

\* Lines 141-178: the query is encoded with the model in hand and the search
\* runs to its end.
EncodeAndScore(t) ==
    /\ epc[t] = "L141"
    /\ \E e \in EncoderOutputs :
          eres' = [eres EXCEPT ![t] = IF Len(e) = store.dim THEN NoError ELSE ValueError]
    /\ epc' = [epc EXCEPT ![t] = "idle"]
    /\ UNCHANGED <<emodel, searches, modelLoads, storeVars, accVars>>

EncodeNext ==
    \/ \E t \in Threads : EnterSearch(t)
    \/ \E t \in Threads : EnsureCached(t)
    \/ \E t \in Threads : EnsureBackend(t)
    \/ \E t \in Threads : EnsureName(t)
    \/ \E t \in Threads : BuildModel(t)
    \/ \E t \in Threads : ReturnModel(t)
    \/ \E t \in Threads : EncodeAndScore(t)

\* Threads searching one constructed store with text queries.
EncodeSpec == EncodeInit /\ [][EncodeNext]_vars

Init == AccInit /\ StoreIdle /\ EncIdle

Next ==
    \/ \E t \in Threads : CheckEnabled(t) /\ UNCHANGED <<storeVars, encVars>>
    \/ \E t \in Threads : CheckCached(t) /\ UNCHANGED <<storeVars, encVars>>
    \/ \E t \in Threads : ReturnCached(t) /\ UNCHANGED <<storeVars, encVars>>
    \/ \E t \in Threads : AcquireLock(t) /\ UNCHANGED <<storeVars, encVars>>
    \/ \E t \in Threads : Recheck(t) /\ UNCHANGED <<storeVars, encVars>>
    \/ \E t \in Threads : ReadPaths(t) /\ UNCHANGED <<storeVars, encVars>>
    \/ \E t \in Threads : CheckPaths(t) /\ UNCHANGED <<storeVars, encVars>>
    \/ \E t \in Threads : Construct(t) /\ UNCHANGED <<storeVars, encVars>>
    \/ \E t \in Threads : ReturnStore(t) /\ UNCHANGED <<storeVars, encVars>>
    \/ Reconfigure /\ UNCHANGED <<storeVars, encVars>>
    \/ RewriteArtifacts /\ UNCHANGED <<storeVars, encVars>>

\* Concurrent callers of get_drive_vector_store.
Spec == Init /\ [][Next]_vars

\* One step of thread t in the accessor's own code (lines 192-205 and 213).
AccessorStep(t) ==
    /\ \/ CheckCached(t)
       \/ ReturnCached(t)
       \/ AcquireLock(t)
       \/ Recheck(t)
       \/ ReadPaths(t)
       \/ CheckPaths(t)
       \/ ReturnStore(t)
    /\ UNCHANGED <<storeVars, encVars>>

\* Callers of get_drive_vector_store under one configuration.
LiveNext ==
    \/ \E t \in Threads : CheckEnabled(t) /\ UNCHANGED <<storeVars, encVars>>
    \/ \E t \in Threads : AccessorStep(t)
    \/ \E t \in Threads : Construct(t) /\ UNCHANGED <<storeVars, encVars>>

\* Every thread that is inside a call keeps being scheduled: a step of the
\* accessor that stays possible is taken (the lock's acquisition once the lock
\* stays free), and a constructor that was entered terminates, so no thread
\* stays at line 207 for ever.
Fairness ==
    \A t \in Threads :
        /\ WF_vars(AccessorStep(t))
        /\ []<>(pc[t] # "L207")

\* Concurrent callers of get_drive_vector_store under fair scheduling.
LiveSpec == Init /\ [][LiveNext]_vars /\ Fairness

LoadNext == NewStore /\ UNCHANGED encVars

\* DriveVectorStore(...) on every combination of artifacts.
LoadSpec == LoadInit /\ [][LoadNext]_vars

\* DriveVectorStore(...) on artifacts of every line and entry shape.
RecordsSpec == RecordsInit /\ [][LoadNext]_vars

\* DriveVectorStore(...) on embeddings of every magnitude.
NormSpec == NormInit /\ [][LoadNext]_vars

SearchNext ==
    \/ DoSearch /\ UNCHANGED encVars
    \/ EndRequest /\ UNCHANGED encVars

\* One constructed DriveVectorStore, searched request after request.
SearchSpec == SearchInit /\ [][SearchNext]_vars

\* One constructed DriveVectorStore under every encoder configuration.
QuerySpec == QueryInit /\ [][SearchNext]_vars

\* ------------------------------------------------ claims on the accessor
InstanceOf(r) == r.kind = "return"

\* C1: with the feature enabled, the paths configured and no construction
\* failing, however the threads' calls interleave the constructor runs at most
\* once, and every call that has returned got instance 1, the one instance
\* built by exactly one constructor run; no call raised.
C1_SingleConstruction ==
    cleanRun =>
        /\ ctorRuns <= 1
        /\ \A t \in Threads :
              \/ result[t] \in {NoResult, Pending}
              \/ /\ result[t] = Returned(1)
                 /\ _DRIVE_VECTOR_STORE = 1
                 /\ ctorRuns = 1

\* Two threads raced past the check outside the lock: one has built and
\* returned the instance, the other is inside the lock at the second check.
C1_Witness ==
    /\ cleanRun
    /\ ctorRuns = 1
    /\ \E t, u \in Threads :
          /\ t # u
          /\ result[t] = Returned(1)
          /\ ~startedCached[u]
          /\ pc[u] = "L196"
          /\ _LOCK = u

\* C2: once an instance is cached it is never replaced and no constructor
\* runs again; every store a call has returned is the cached instance; and a
\* call made with the flag on while an instance is cached goes through the
\* outside check to the return of that instance.
C2_CachedForever ==
    /\ [](\A t \in Threads :
            InstanceOf(result[t]) =>
                (result[t].inst = _DRIVE_VECTOR_STORE /\ _DRIVE_VECTOR_STORE # 0))
    /\ [][_DRIVE_VECTOR_STORE # 0 =>
            /\ _DRIVE_VECTOR_STORE' = _DRIVE_VECTOR_STORE
            /\ ctorRuns' = ctorRuns
            /\ heap' = heap]_vars
    /\ [][(settings.drive_vector_enabled /\ _DRIVE_VECTOR_STORE # 0 /\ calls' # calls) =>
            \E t \in Threads :
                pc[t] = "idle" /\ pc'[t] = "L192" /\ startedCached'[t]]_vars
    /\ [][\A t \in Threads :
            (startedCached[t] /\ pc'[t] # pc[t]) =>
                \/ pc[t] = "idle"
                \/ pc[t] = "L192" /\ pc'[t] = "L193"
                \/ /\ pc[t] = "L193" /\ pc'[t] = "idle"
                   /\ result'[t] = Returned(_DRIVE_VECTOR_STORE)]_vars

\* Every call has been made, an instance was built once, and two threads hold
\* the same instance, one of them from a call that started after the build.
C2_Witness ==
    /\ calls = MaxCalls
    /\ ctorRuns = 1
    /\ \E t, u \in Threads :
          /\ t # u
          /\ pc[t] = "idle" /\ pc[u] = "idle"
          /\ result[t] = Returned(_DRIVE_VECTOR_STORE)
          /\ result[u] = Returned(_DRIVE_VECTOR_STORE)
          /\ startedCached[u]

\* C3: a call made while the feature flag is off raises
\* DriveVectorStoreNotAvailable in its first step: it never takes the lock,
\* reads no path, runs no constructor and leaves the cached instance as it was,
\* whether or not one is cached.
C3_DisabledFailsFast ==
    [][(~settings.drive_vector_enabled /\ calls' # calls) =>
          /\ \E t \in Threads :
                /\ pc[t] = "idle"
                /\ result' = [result EXCEPT ![t] = Raised(NotAvailable)]
                /\ paths'[t] = NoPaths
          /\ pc' = pc
          /\ UNCHANGED <<_DRIVE_VECTOR_STORE, _LOCK, heap, ctorRuns, ctorFailed>>]_vars

\* A call raised DriveVectorStoreNotAvailable while an instance is cached.
C3_Witness ==
    /\ ~settings.drive_vector_enabled
    /\ _DRIVE_VECTOR_STORE # 0
    /\ \E t \in Threads :
          /\ result[t] = Raised(NotAvailable)
          /\ startedCached[t]

\* C4: a constructor run that raises leaves the global None, the heap without
\* a new object and the lock free; the global only ever names the instance of
\* the one successful run, so after failures alone nothing is cached; and a
\* call that finds the global None inside the lock with its paths set runs
\* the constructor again, whatever failed before.
C4_FailureNotCached ==
    /\ [](/\ _DRIVE_VECTOR_STORE \in 0..Len(heap)
          /\ Len(heap) = ctorRuns - ctorFailed
          /\ _DRIVE_VECTOR_STORE = Len(heap)
          /\ Len(heap) <= 1)
    /\ [][ctorFailed' # ctorFailed =>
            /\ _DRIVE_VECTOR_STORE = 0
            /\ _DRIVE_VECTOR_STORE' = 0
            /\ heap' = heap
            /\ _LOCK' = 0
            /\ \E t \in Threads :
                  pc[t] = "L207" /\ result'[t].kind = "raise" /\ pc'[t] = "idle"]_vars
    /\ [][\A t \in Threads :
            (pc[t] = "L196" /\ _DRIVE_VECTOR_STORE = 0 /\ pc'[t] # pc[t]) =>
                pc'[t] = "L197"]_vars
    /\ [][\A t \in Threads :
            (pc[t] = "L201" /\ PathsConfigured(settings) /\ pc'[t] # pc[t]
                /\ paths[t] = <<settings.drive_vector_embeddings_path,
                                settings.drive_vector_metadata_path,
                                settings.drive_vector_documents_path>>) =>
                pc'[t] = "L207"]_vars
    /\ [][\A t \in Threads :
            (pc[t] = "L207" /\ pc'[t] # pc[t]) => ctorRuns' = ctorRuns + 1]_vars

\* A construction failed, a later call constructed again and succeeded, and
\* its instance is the one cached and returned.
C4_Witness ==
    /\ ctorFailed >= 1
    /\ ctorRuns = ctorFailed + 1
    /\ _DRIVE_VECTOR_STORE = 1
    /\ \E t \in Threads : result[t] = Returned(1) /\ ~startedCached[t]

\* C5: a call that started with an instance cached never waits for, holds or
\* passes through _LOCK: it is at the flag check, the outside check or the
\* fast return, and what it returns is the cached instance.
C5_FastPathSkipsLock ==
    \A t \in Threads :
        startedCached[t] =>
            /\ pc[t] \in {"idle", "L192", "L193"}
            /\ _LOCK # t
            /\ result[t] \in {Pending, Returned(_DRIVE_VECTOR_STORE), Raised(NotAvailable)}

\* A call that started after the build has returned the cached instance while
\* another call, started before the build, is still inside the lock.
C5_Witness ==
    \E t, u \in Threads :
        /\ startedCached[t]
        /\ pc[t] = "idle"
        /\ result[t] = Returned(_DRIVE_VECTOR_STORE)
        /\ ~startedCached[u]
        /\ pc[u] = "L196"

\* C6: inside the lock with no instance cached, the three paths read are the
\* settings' paths, and when one of them is None or empty the call raises
\* DriveVectorStoreConfigError, runs no constructor, leaves the global None and
\* releases the lock.
C6_MissingPathIsConfigError ==
    /\ [](\A t \in Threads :
            pc[t] \in {"L197", "L201"} => (_DRIVE_VECTOR_STORE = 0 /\ _LOCK = t))
    /\ [][\A t \in Threads :
            (pc[t] = "L197" /\ pc'[t] # pc[t]) =>
                /\ pc'[t] = "L201"
                /\ paths'[t] = <<settings.drive_vector_embeddings_path,
                                 settings.drive_vector_metadata_path,
                                 settings.drive_vector_documents_path>>]_vars
    /\ [][\A t \in Threads :
            (pc[t] = "L201" /\ pc'[t] # pc[t]
                /\ \E i \in 1..3 : paths[t][i] \in {None, ""}) =>
                /\ result'[t] = Raised(ConfigError)
                /\ pc'[t] = "idle"
                /\ _DRIVE_VECTOR_STORE' = 0
                /\ _LOCK' = 0
                /\ UNCHANGED <<heap, ctorRuns, ctorFailed>>]_vars

\* With the flag on and the documents path unset, a call raised the
\* configuration error and nothing was ever constructed.
C6_Witness ==
    /\ settings.drive_vector_enabled
    /\ settings.drive_vector_documents_path = None
    /\ ctorRuns = 0
    /\ _DRIVE_VECTOR_STORE = 0
    /\ _LOCK = 0
    /\ \E t \in Threads : result[t] = Raised(ConfigError) /\ pc[t] = "idle"

\* -------------------------------------------- claims on store construction
RowsOnDisk(d) == IF d.emb.ndim = 1 THEN 1 ELSE Len(d.emb.arr)

\* The three artifacts exist and parse: an array, a JSON mapping or list, and
\* lines none of which is a JSON value other than an object.
ArtifactsLoad(d) ==
    /\ d.emb.exists /\ d.meta.exists /\ d.docs.exists
    /\ d.emb.loads
    /\ d.meta.root \in {"list", "dict", "dict_items"}
    /\ \A i \in 1..Len(d.docs.lines) : d.docs.lines[i].kind # "nonobj"

\* C7: a store whose construction completed has as many records as embedding
\* rows, and they are the rows, entries and lines of the artifacts, none
\* dropped or added; when the row count of the embeddings file differs from
\* the number of metadata entries or document lines, the constructor raises
\* DriveVectorStoreConfigError and there is no store.
C7_RowsMatchRecords ==
    /\ phase = "built" =>
          /\ Len(store.records) = Len(store.embeddings)
          /\ Len(store.embeddings) = RowsOnDisk(disk)
          /\ Len(store.records) = Len(disk.meta.entries)
          /\ Len(store.records) = Len(disk.docs.lines)
    /\ (/\ phase \in {"built", "failed"}
        /\ ArtifactsLoad(disk)
        /\ \/ RowsOnDisk(disk) # Len(disk.meta.entries)
           \/ RowsOnDisk(disk) # Len(disk.docs.lines)) =>
          /\ phase = "failed"
          /\ initErr = ConfigError
          /\ store = NoStore

\* Three embedding rows against two records: the records load, the check of
\* line 60 raises.
C7_Witness ==
    /\ phase = "failed"
    /\ initErr = ConfigError
    /\ store = NoStore
    /\ ArtifactsLoad(disk)
    /\ RowsOnDisk(disk) = 3
    /\ Len(disk.meta.entries) = 2
    /\ Len(disk.docs.lines) = 2

\* ------------------------------------------------------- claims on search
\* The call got as far as a query vector of the store's dimensionality.
Scored == phase = "searched" /\ out.vector # <<>> /\ Len(out.vector) = store.dim

Distinct(sc) == \A i, j \in 1..Len(sc) : sc[i] = sc[j] => i = j

\* The rows with fewer than k rows scoring higher.
BruteForceTop(sc, k) ==
    {i \in 1..Len(sc) : Cardinality({j \in 1..Len(sc) : sc[j] > sc[i]}) < k}

\* Every returned pair is (score of row idx, record idx).
Aligned(sc) ==
    \A j \in 1..Len(out.results) :
        /\ out.results[j].idx \in 1..Len(sc)
        /\ out.results[j].score = sc[out.results[j].idx]
        /\ out.results[j].record = store.records[out.results[j].idx]

\* C8: when the N scores are pairwise distinct and 0 < top_k <= N, search
\* returns exactly top_k pairs, strictly descending by score, and the rows
\* returned are the top_k highest-scoring rows of a brute-force comparison.
C8_TopKCorrect ==
    LET sc == Scores(store, out.vector)
        k == call.top_k
    IN  (Scored /\ Distinct(sc) /\ 0 < k /\ k <= Len(store.records)) =>
            /\ out.err = NoError
            /\ Len(out.results) = k
            /\ Aligned(sc)
            /\ \A j \in 1..(k - 1) : out.results[j].score > out.results[j + 1].score
            /\ {out.results[j].idx : j \in 1..k} = BruteForceTop(sc, k)

\* A proper selection: 0 < top_k < N = MaxRows with distinct scores.
C8_Witness ==
    /\ Scored
    /\ out.err = NoError
    /\ Len(store.records) = MaxRows
    /\ Distinct(Scores(store, out.vector))
    /\ call.top_k = MaxRows - 1
    /\ Len(out.results) = MaxRows - 1
    /\ out.results[1].idx = MaxRows

\* C9: when top_k >= N, search returns all N records, each once, ordered by
\* non-increasing score.
C9_SaturatedReturnsAll ==
    LET sc == Scores(store, out.vector)
        n == Len(store.records)
    IN  (Scored /\ call.top_k >= n) =>
            /\ out.err = NoError
            /\ Len(out.results) = n
            /\ Aligned(sc)
            /\ {out.results[j].idx : j \in 1..n} = 1..n
            /\ \A j \in 1..(n - 1) : out.results[j].score >= out.results[j + 1].score

\* top_k above N on a store of two or more records with a tie among the scores.
C9_Witness ==
    /\ Scored
    /\ out.err = NoError
    /\ call.top_k > Len(store.records)
    /\ Len(out.results) = Len(store.records)
    /\ Len(out.results) >= 2
    /\ ~Distinct(Scores(store, out.vector))
    /\ out.results[1].score > out.results[Len(out.results)].score

ScenarioStore ==
    /\ store.embeddings = <<<<Scale, 0>>, <<0, Scale>>, Unit06>>
    /\ [i \in 1..Len(store.records) |-> store.records[i].metadata]
          = <<JMap("id", "a"), JMap("id", "b"), JMap("id", "c")>>

\* C10: on the store with rows [1,0], [0,1], [0.6,0.8] and records a, b, c,
\* search with query_embedding [1,0] and top_k 2 returns exactly a with score
\* 1.0 and then c with score 0.6.
C10_ConcreteScenario ==
    (/\ phase = "searched"
     /\ ScenarioStore
     /\ call.query_embedding = QVec(<<Scale, 0>>)
     /\ call.top_k = 2) =>
        /\ out.err = NoError
        /\ Len(out.results) = 2
        /\ out.results[1].record.metadata = JMap("id", "a")
        /\ out.results[1].score = Scale
        /\ out.results[2].record.metadata = JMap("id", "c")
        /\ out.results[2].score = (6 * Scale) \div 10

\* The scenario's call has returned.
C10_Witness ==
    /\ phase = "searched"
    /\ ScenarioStore
    /\ call = [query |-> None, query_embedding |-> QVec(<<Scale, 0>>), top_k |-> 2]
    /\ out.err = NoError
    /\ Len(out.results) = 2

\* --------------------------------------------- claims on the query of search
\* A step that is one call of search, from its arguments to its outcome.
SearchStep == phase = "built" /\ phase' = "searched"

\* A text query: query non-empty and query_embedding absent.
TextQuery(c) == ~c.query_embedding.given /\ ~Falsy(c.query)

\* C11: search with query_embedding absent and query absent or empty raises
\* DriveVectorStoreConfigError; encode_query is not called, no model is
\* constructed (the store is as before) and no vector or score is computed.
C11_NoQueryIsConfigError ==
    [][(SearchStep /\ ~call'.query_embedding.given /\ Falsy(call'.query)) =>
            /\ out'.err = ConfigError
            /\ out'.results = <<>>
            /\ out'.vector = <<>>
            /\ ~out'.encoded
            /\ store' = store]_vars

\* An empty query string refused on a store whose encoder would have worked.
C11_Witness ==
    /\ phase = "searched"
    /\ call.query = ""
    /\ call.query_embedding = QNone
    /\ backend
    /\ store.model_name = "model"
    /\ out.err = ConfigError

\* A query_embedding that is not 1-D, or is 1-D with every component zero (the
\* empty vector included).
BadEmbedding(qe) ==
    /\ qe.given
    /\ \/ qe.ndim # 1
       \/ \A i \in 1..Len(qe.arr) : qe.arr[i] = 0

\* C12: search with a query_embedding that is all zeros or not 1-D raises
\* DriveVectorStoreConfigError and returns no results, whether or not a query
\* string comes with it; the text query is not encoded in its place.
C12_BadEmbeddingIsConfigError ==
    [][(SearchStep /\ BadEmbedding(call'.query_embedding)) =>
            /\ out'.err = ConfigError
            /\ out'.results = <<>>
            /\ ~out'.encoded
            /\ store' = store]_vars

\* A zero vector refused although a text query came with it and the encoder
\* would have worked.
C12_Witness ==
    /\ phase = "searched"
    /\ call.query = "q"
    /\ call.query_embedding = QVec(<<0, 0>>)
    /\ backend
    /\ store.model_name = "model"
    /\ out.err = ConfigError

EncoderUnconfigured == ~backend \/ Falsy(store.model_name)

\* A query_embedding search can answer: a non-zero 1-D vector of the store's
\* dimensionality and a top_k that is not negative.
UsableEmbedding(c) ==
    /\ c.query_embedding.given
    /\ ~BadEmbedding(c.query_embedding)
    /\ Len(c.query_embedding.arr) = store.dim
    /\ c.top_k >= 0

\* C15: when no backend is available or no model name is configured, a text
\* query raises DriveVectorStoreConfigError, constructs no model and leaves
\* the store as it was with _model unset, so every later text query fails the
\* same way, while a later search with a query_embedding still succeeds.
C15_EncoderUnconfigured ==
    /\ [](EncoderUnconfigured => store._model = None)
    /\ [][(SearchStep /\ TextQuery(call') /\ EncoderUnconfigured) =>
            /\ out'.err = ConfigError
            /\ out'.encoded
            /\ out'.vector = <<>>
            /\ out'._model = None
            /\ store' = store
            /\ encodeFailed']_vars
    /\ []((phase = "searched" /\ encodeFailed /\ EncoderUnconfigured
                /\ UsableEmbedding(call)) =>
            /\ out.err = NoError
            /\ ~out.encoded
            /\ store._model = None)

\* After a text query failed for want of a backend, a query_embedding search
\* on the same store returns its best match.
C15_Witness ==
    /\ phase = "searched"
    /\ encodeFailed
    /\ ~backend
    /\ store.model_name = "model"
    /\ call.query_embedding = QVec(Unit06)
    /\ call.top_k = 1
    /\ out.err = NoError
    /\ Len(out.results) = 1

\* ------------------------------------ claims on the lazily built model
\* C14: for one store, however text-query searches follow one another or
\* interleave, SentenceTransformer(...) constructs at most one model: every
\* encode after the first construction uses the cached model.
C14_ModelBuiltOnce == modelLoads <= 1

\* ------------------------------------------- claims on the record loader
Constructed == phase \in {"built", "failed"}

AllExist(d) == d.emb.exists /\ d.meta.exists /\ d.docs.exists

\* The cases in which building the records is to fail: an artifact of the
\* records is missing; or, the artifacts being there and the embeddings
\* loaded, the metadata root is neither a mapping nor a sequence, or the
\* entries and the extracts of the lines read are not equally many.
RecordsMustFail(d) ==
    \/ ~d.meta.exists
    \/ ~d.docs.exists
    \/ /\ AllExist(d)
       /\ d.emb.loads
       /\ \/ d.meta.root = "other"
          \/ /\ d.meta.root \in {"list", "dict", "dict_items"}
             /\ \A i \in 1..Len(d.docs.lines) : d.docs.lines[i].kind # "nonobj"
             /\ Len(d.meta.entries) # Len(d.docs.lines)

\* C16: when the number of metadata entries differs from the number of
\* document extracts, when the metadata or documents artifact is missing, or
\* when the metadata root is neither a mapping nor a sequence, construction
\* raises DriveVectorStoreConfigError and no store is produced.
C16_RecordErrorsAreConfigErrors ==
    (Constructed /\ RecordsMustFail(disk)) =>
        /\ phase = "failed"
        /\ initErr = ConfigError
        /\ store = NoStore

\* The embeddings have as many rows as there are lines, the metadata has a
\* different number of entries, and the constructor raised.
C16_Witness ==
    /\ phase = "failed"
    /\ initErr = ConfigError
    /\ AllExist(disk)
    /\ disk.emb.loads
    /\ disk.meta.root = "list"
    /\ RowsOnDisk(disk) = Len(disk.docs.lines)
    /\ Len(disk.docs.lines) = 2
    /\ Len(disk.meta.entries) = 3

\* C17: the loader builds one extract per line of the documents file, in line
\* order; a blank line and a line that does not parse as a structured record
\* give None at their own position, and no line makes the loader raise.
C17_OneExtractPerLine ==
    Constructed =>
        /\ phase = "built"
        /\ Len(store.records) = Len(disk.docs.lines)
        /\ \A i \in 1..Len(disk.docs.lines) :
              disk.docs.lines[i].kind # "obj" => store.records[i].text_extract = None

\* The value of the highest-priority field present in an object line, None
\* when none of the four is present.
HighestPresent(line) ==
    IF line.text_extract # None THEN line.text_extract
    ELSE IF line.text # None THEN line.text
    ELSE IF line.content # None THEN line.content
    ELSE line.body

\* C18: the extract of a parsed line is the value of the highest-priority
\* field present among text_extract, text, content, body, None when none is
\* present, and the text_extract of every record is a string or None.
C18_ExtractIsFirstPresentField ==
    phase = "built" =>
        \A i \in 1..Len(store.records) :
            /\ disk.docs.lines[i].kind = "obj" =>
                  store.records[i].text_extract = HighestPresent(disk.docs.lines[i])
            /\ store.records[i].text_extract # NonString

\* C19: every record of a constructed store has a mapping as metadata: entry
\* i of the source when that is a mapping, {"value": entry i} when it is not;
\* and record i has the extract of line i.
C19_MetadataIsMapping ==
    phase = "built" =>
        /\ Len(store.records) = Len(disk.meta.entries)
        /\ \A i \in 1..Len(store.records) :
              LET e == disk.meta.entries[i]
                  r == store.records[i]
              IN  /\ r.metadata.tag = "map"
                  /\ e.tag = "map" => r.metadata = e
                  /\ e.tag # "map" => (r.metadata.key = "value" /\ r.metadata.val = e.val)
                  /\ r.text_extract = LineExtract(disk.docs.lines[i])

\* A store of MaxRows records built from the values of a mapping: a scalar
\* entry wrapped at position 2 next to a mapping kept at position 1.
C19_Witness ==
    /\ phase = "built"
    /\ disk.meta.root = "dict"
    /\ Len(store.records) = MaxRows
    /\ disk.meta.entries[2] = JScalar("b")
    /\ store.records[2].metadata = JMap("value", "b")
    /\ store.records[1].metadata = JMap("id", "a")
    /\ store.records[1].text_extract = "tx"

\* C20: when the embeddings file exists but is not a loadable array, or the
\* metadata file exists but is not parsable, construction fails with
\* DriveVectorStoreConfigError.
C20_MalformedIsConfigError ==
    (Constructed /\ AllExist(disk)
            /\ (~disk.emb.loads \/ disk.meta.root = "malformed")) =>
        /\ phase = "failed"
        /\ initErr = ConfigError

\* ------------------------------------------ claims on the embedding matrix
\* The rows of the array np.load returns, a 1-D array counting as one row.
InputRows(e) == IF e.ndim = 1 THEN <<e.arr>> ELSE e.arr

IsZero(v) == \A i \in 1..Len(v) : v[i] = 0

\* The L2 norm of v is 1 to within one step of the grid (0.01).
UnitWithinTolerance(v) ==
    /\ (Scale - 1) * (Scale - 1) <= SumSq(v)
    /\ SumSq(v) <= (Scale + 1) * (Scale + 1)

\* C21: after loading, the matrix has one row per input row, a 1-D input
\* making a matrix of one row; a row that came from a non-zero vector has L2
\* norm 1 within tolerance and a row that came from an all-zero vector is the
\* zero vector.
C21_RowsNormalized ==
    Constructed =>
        LET input == InputRows(disk.emb)
        IN  /\ phase = "built"
            /\ Len(store.embeddings) = Len(input)
            /\ disk.emb.ndim = 1 =>
                  (Len(store.embeddings) = 1 /\ store.dim = Len(disk.emb.arr))
            /\ \A i \in 1..Len(input) :
                  /\ Len(store.embeddings[i]) = Len(input[i])
                  /\ IsZero(input[i]) => store.embeddings[i] = input[i]
                  /\ ~IsZero(input[i]) => UnitWithinTolerance(store.embeddings[i])

\* A matrix of MaxRows rows built from a zero row, a row of norm 2.5 and a
\* row of norm 2.
C21_Witness ==
    /\ phase = "built"
    /\ Len(store.embeddings) = MaxRows
    /\ disk.emb.arr[1] = <<0, 0>>
    /\ disk.emb.arr[2] = <<3 * (Scale \div 2), 2 * Scale>>
    /\ disk.emb.arr[3] = <<0 - 2 * Scale, 0>>
    /\ store.embeddings[1] = <<0, 0>>
    /\ store.embeddings[2] = Unit06
    /\ store.embeddings[3] = <<0 - Scale, 0>>

\* ------------------------------------------------- claims on exclusiveness
\* Thread t is inside the with block of line 195.
InCriticalSection(t) == pc[t] \in {"L196", "L197", "L201", "L207"}

\* Thread t is constructing: reading and checking the paths or running the
\* constructor (lines 197-212).
Initializing(t) == pc[t] \in {"L197", "L201", "L207"}

\* C22: at most one thread at a time is constructing (path check plus
\* constructor), also after a construction attempt failed and another caller
\* retries; the thread inside the with block is the holder of the lock.
C22_InitializingExclusive ==
    /\ Cardinality({t \in Threads : InCriticalSection(t)}) <= 1
    /\ Cardinality({t \in Threads : Initializing(t)}) <= 1
    /\ \A t \in Threads : InCriticalSection(t) => _LOCK = t

\* After a failed construction a thread is in the constructor again while
\* another one waits for the lock.
C22_Witness ==
    /\ ctorFailed >= 1
    /\ \E t, u \in Threads :
           /\ t # u
           /\ pc[t] = "L207"
           /\ _LOCK = t
           /\ pc[u] = "L195"

\* ------------------------------------------------ claims on search's effects
\* C23: every search call, returning or raising, with a text query or an
\* embedding, leaves the store's embedding matrix and record sequence as the
\* constructor made them and leaves the process-wide cached instance as it
\* was.
C23_SearchReadOnly ==
    /\ [](phase \in {"built", "searched"} =>
            LET made == DriveVectorStoreInit(disk, settings.drive_vector_model_name).val
            IN  /\ store.embeddings = made.embeddings
                /\ store.records = made.records)
    /\ [][SearchStep =>
            /\ store'.embeddings = store.embeddings
            /\ store'.records = store.records
            /\ store'.dim = store.dim
            /\ _DRIVE_VECTOR_STORE' = _DRIVE_VECTOR_STORE
            /\ heap' = heap]_vars

\* A text query that built the model and returned results from a store of two
\* different rows, which are still in their places.
C23_Witness ==
    /\ phase = "searched"
    /\ out.err = NoError
    /\ out.encoded
    /\ store._model # None
    /\ Len(out.results) = 2
    /\ store.embeddings = <<Unit06, <<Scale, 0>>>>
    /\ store.records[1].metadata # store.records[2].metadata

\* C24: when query_embedding is supplied, search takes it (normalized) as the
\* query vector and neither calls encode_query nor constructs the model, also
\* when a query string comes with it; encode_query is called only when
\* query_embedding is absent.
C24_EmbeddingBypassesEncoder ==
    [][SearchStep =>
        LET qe == call'.query_embedding
        IN  /\ qe.given =>
                /\ ~out'.encoded
                /\ store' = store
                /\ ~BadEmbedding(qe) =>
                      /\ out'.vector = DivVec(qe.arr, Norm(qe.arr))
                      /\ out'.err # ConfigError
            /\ out'.encoded => ~qe.given]_vars

\* An embedding and a query string together, on a store whose encoder would
\* work: results come back, nothing was encoded and no model was built.
C24_Witness ==
    /\ phase = "searched"
    /\ call.query = "q"
    /\ call.query_embedding = QVec(<<Scale, 0>>)
    /\ backend
    /\ store.model_name = "model"
    /\ out.err = NoError
    /\ out.results # <<>>
    /\ out.vector = <<Scale, 0>>
    /\ ~out.encoded
    /\ store._model = None

\* C25: search on a non-empty store with a non-zero 1-D query_embedding whose
\* length differs from the stored dimensionality returns no results and does
\* not raise DriveVectorStoreConfigError: the matrix product raises
\* ValueError, and the store is unchanged.
C25_MismatchIsShapeError ==
    [][(/\ SearchStep
        /\ Len(store.embeddings) > 0
        /\ call'.query_embedding.given
        /\ ~BadEmbedding(call'.query_embedding)
        /\ Len(call'.query_embedding.arr) # store.dim) =>
            /\ out'.err = ValueError
            /\ out'.err # ConfigError
            /\ out'.results = <<>>
            /\ ~out'.encoded
            /\ store' = store]_vars

\* A vector of three components against rows of two: ValueError.
C25_Witness ==
    /\ phase = "searched"
    /\ Len(store.embeddings) = 2
    /\ store.dim = 2
    /\ call.query_embedding = QVec(<<Scale, 0, 0>>)
    /\ call.top_k = 1
    /\ out.err = ValueError
    /\ out.results = <<>>

\* --------------------------------------------------- claims on termination
\* C26: get_drive_vector_store never leaves _LOCK held: the lock is held only
\* by a thread inside the with block, whichever way the block is left
\* (instance built, instance present, missing path, constructor exception),
\* and under fair scheduling every caller eventually returns a store or
\* raises.
C26_LockAlwaysReleased ==
    /\ [](_LOCK # 0 => (_LOCK \in Threads /\ InCriticalSection(_LOCK)))
    /\ []((\A t \in Threads : pc[t] = "idle") => _LOCK = 0)
    /\ \A t \in Threads :
           (pc[t] # "idle") ~> (pc[t] = "idle" /\ result[t] # Pending)

\* A caller raised the missing-path error inside the with block and another
\* caller holds the lock after it.
C26_Witness ==
    \E t, u \in Threads :
        /\ t # u
        /\ pc[t] = "idle"
        /\ result[t] = Raised(ConfigError)
        /\ ctorRuns = 0
        /\ pc[u] = "L196"
        /\ _LOCK = u

\* ------------------------------------------------- claims on the result list
\* C27: for every non-negative top_k, 0 included, and every store of N
\* records, a search that returns gives exactly min(top_k, N) results; top_k =
\* 0 on a non-empty store gives the empty list.
C27_ResultCount ==
    (phase = "searched" /\ out.err = NoError /\ call.top_k >= 0) =>
        Len(out.results) = (IF call.top_k < Len(store.records)
                            THEN call.top_k
                            ELSE Len(store.records))

\* C28: in every list search returns, each pair is index-aligned: for one
\* index i of the store the record is records[i], the record made from entry
\* i of the metadata file, and the score is the similarity of embedding row i
\* and the query vector; no index appears twice in one list.
C28_PairsIndexAligned ==
    (phase = "searched" /\ out.err = NoError) =>
        LET sc == Scores(store, out.vector)
            res == out.results
        IN  /\ \A j \in 1..Len(res) :
                  LET i == res[j].idx
                  IN  /\ i \in 1..Len(store.records)
                      /\ i \in 1..Len(store.embeddings)
                      /\ res[j].score = sc[i]
                      /\ res[j].record = store.records[i]
                      /\ res[j].record.metadata.val = IdAt(i)
            /\ \A j, k \in 1..Len(res) : res[j].idx = res[k].idx => j = k

\* Two pairs returned in an order that is not the order of the rows: the
\* third row first, then the first row.
C28_Witness ==
    /\ phase = "searched"
    /\ out.err = NoError
    /\ Len(store.records) = 3
    /\ call.top_k = 2
    /\ Len(out.results) = 2
    /\ out.results[1].idx = 3
    /\ out.results[2].idx = 1
    /\ out.results[1].score > out.results[2].score
    /\ out.results[1].record.metadata.val = "c"
    /\ out.results[2].record.metadata.val = "a"

====
